---- MODULE Spec2Model ----
(***************************************************************************)
(* Model of the signal / wait core of a kernel object                      *)
(* (src/src/object/mod.rs): KObjectBase's lock-guarded signal and callback *)
(* list, signal_change / signal_set / signal_clear, add_signal_callback,   *)
(* the blocking wait_signal and the future behind wait_signal_async.       *)
(*                                                                         *)
(* A Signal is a bit set, modelled as a subset of Bits.  Every access to   *)
(* the spin::Mutex is one guarded step; the body of signal_change is split *)
(* into the steps it takes while it holds the lock, so that the value      *)
(* between `remove(clear)` and `insert(set)` is a state of the model.      *)
(***************************************************************************)
EXTENDS Naturals, Sequences, FiniteSets

\* Bounds of the model.
MaxChanges == 2     \* signal_change / signal_set / signal_clear calls
MaxWaits == 1       \* wait_signal calls of the waiting thread
MaxPolls == 2       \* polls of the futures
MaxFutures == 2     \* wait_signal_async calls
MaxObjects == 4     \* kernel objects created

KoidStart == 1024                   \* static KOID: AtomicU64 = AtomicU64::new(1024)

Bits == {"R", "W"}                  \* READABLE, WRITABLE
Signals == SUBSET Bits
Empty == {}                         \* Signal::empty()
Masks == Signals \ {Empty}          \* masks a waiter passes
Mutators == {"m1", "m2"}            \* threads calling signal_change
NoThread == "none"
Threads == {"a", "b", "c"}          \* threads creating kernel objects

VARIABLES
    signal,             \* KObjectBaseInner.signal
    signal_callbacks,   \* KObjectBaseInner.signal_callbacks
    lock,               \* holder of KObjectBase.inner, or NoThread
    mut,                \* per mutator: position in signal_change and its locals
    wait,               \* the thread in wait_signal: position, mask, current_signal
    token,              \* park token of the waiting thread (set by waker.wake())
    fut,                \* the live SignalFuture: position of poll, signal, first, result
    woken,              \* the task's reschedule handle has been invoked since its last poll
    count,              \* calls made so far: changes, waits, polls, futures; and the
                        \* callbacks registered by the current wait (regw) and future (regf)
    epoch,              \* history: number of value-changing transitions so far
    round,              \* history: ids of the callbacks invoked by the transition in progress
    fired,              \* history: ids of the callbacks that have returned true
    expected,           \* history: fold of the (clear, set) steps in lock order
    hit,                \* history: a transition intersecting the wait's mask happened since its call
    KOID,               \* the static counter of new_koid
    koids,              \* the ids handed out, in allocation order, each with its creator
    ext,                \* a thread calling signal() or add_signal_callback(..) from outside
    snap,               \* history: ids in the callback list when the transition in progress began
    given               \* history: the values passed to the callbacks invoked by that transition

vars == <<signal, signal_callbacks, lock, mut, wait, token, fut, woken,
          count, epoch, round, fired, expected, hit, KOID, koids, ext, snap, given>>

----------------------------------------------------------------------------
\* Pure helpers

\* !(s & mask).is_empty()
Intersects(s, mask) == s \cap mask # {}

\* inner.signal.remove(clear)
RemoveBitsKeep(sig, clear) == sig
RemoveBits(sig, clear) == sig \ clear

\* inner.signal.insert(set)
InsertBits(sig, set) == sig \cup set

\* if new_signal == old_signal { return; }
ChangedAlways(old, new) == TRUE
Changed(old, new) == new # old

\* the closure registered by wait_signal and by poll: true iff (s & signal) is not empty
HandlerFires(h, s) == Intersects(s, h.mask)

\* retain(|f| !f(new_signal)): an element is kept iff its call returned false
RetainedAll(ret) == TRUE
Retained(ret) == ~ret

\* wait_signal's test `(current_signal & signal).is_empty()`, negated
WaitSatisfiedAny(cur, mask) == cur # {}
WaitSatisfied(cur, mask) == Intersects(cur, mask)

\* poll's test `!(current_signal & self.signal).is_empty()`
PollReadyFired(cur, mask) == Intersects(cur, mask) /\ ~fut.first
PollReady(cur, mask) == Intersects(cur, mask)

\* self.inner.lock() of signal(): the spin lock is taken only when free
ReadLockNone == TRUE
ReadLock == lock = NoThread

\* self.inner.lock() of signal_change
ChangeLockNone == TRUE
ChangeLock == lock = NoThread

\* self.inner.lock() of add_signal_callback
AddLock == lock = NoThread

\* a lock that its holder may take again
SpinLockReentrant(t) == lock \in {NoThread, t}

\* self.inner.lock() as thread t meets it: spin::Mutex spins until the lock is
\* free, whoever holds it
SpinLock(t) == lock = NoThread

\* inner.signal_callbacks.push(callback)
PushFront(list, h) == <<h>> \o list
Push(list, h) == Append(list, h)

\* one change request as a single step: clear bits removed, then set bits added
ApplyStep(cur, clear, set) == (cur \ clear) \cup set

RemoveAt(list, i) == SubSeq(list, 1, i - 1) \o SubSeq(list, i + 1, Len(list))

\* a registered Box<dyn Fn(Signal) -> bool>; `seen`, `last` and `calls` are
\* history: the epoch and the signal at its registration or, later, at its last
\* invocation, and the number of its invocations
Handler(id, mask, kind) ==
    [id |-> id, mask |-> mask, kind |-> kind, seen |-> epoch, last |-> signal, calls |-> 0]

IdleMut == [pc |-> "idle", clear |-> Empty, set |-> Empty,
            old_signal |-> Empty, new_signal |-> Empty, idx |-> 0]
IdleWait == [pc |-> "idle", mask |-> Empty, current_signal |-> Empty]
NoFuture == [pc |-> "none", mask |-> Empty, first |-> TRUE, result |-> Empty]
IdleExt == [pc |-> "idle", op |-> "none", kind |-> "none"]

\* what a callback supplied by a user of the object may call on the same object
\* from its body (signal_set and signal_clear are signal_change)
ReentrantOps == {"signal", "signal_change", "add_signal_callback"}

\* the argument of the closure call in retain(|f| !f(new_signal))
CallbackArgOld(m) == mut[m].old_signal
CallbackArg(m) == mut[m].new_signal

\* the ids in a callback list, in list order
IdSeq(list) == [i \in DOMAIN list |-> list[i].id]

\* KOID.fetch_add(1, ..) that does not add
FetchAddLost(counter) == [ret |-> counter, new |-> counter]

\* KOID.fetch_add(1, Ordering::SeqCst): one atomic step, the old value is returned
FetchAdd(counter) == [ret |-> counter, new |-> counter + 1]

----------------------------------------------------------------------------
Init ==
    /\ signal \in Signals              \* KObjectBase::new() or with_signal(signal)
    /\ signal_callbacks = <<>>
    /\ lock = NoThread
    /\ mut = [m \in Mutators |-> IdleMut]
    /\ wait = IdleWait
    /\ token = FALSE
    /\ fut = NoFuture
    /\ woken = FALSE
    /\ count = [changes |-> 0, waits |-> 0, polls |-> 0, futures |-> 0, regw |-> 0, regf |-> 0]
    /\ epoch = 0
    /\ round = <<>>
    /\ fired = {}
    /\ expected = signal
    /\ hit = FALSE
    /\ KOID = FetchAdd(KoidStart).new     \* the object's own id is the first one
    /\ koids = <<[by |-> "a", id |-> FetchAdd(KoidStart).ret]>>
    /\ ext = IdleExt
    /\ snap = <<>>
    /\ given = <<>>

----------------------------------------------------------------------------
\* waker.wake() / waker.wake_by_ref() in the closure: the thread's park token is
\* set (idempotent, kept until the next park), the task is marked for rescheduling
Wake(h, r) ==
    /\ token' = IF r /\ h.kind = "thread" THEN TRUE ELSE token
    /\ woken' = IF r /\ h.kind = "task" THEN TRUE ELSE woken

\* KObjectBase::add_signal_callback, evaluating the callback at registration
add_signal_callback_eager(h) ==
    /\ AddLock
    /\ IF HandlerFires(h, signal)
       THEN /\ Wake(h, TRUE)
            /\ round' = Append(round, h.id)
            /\ fired' = fired \cup {h.id}
            /\ UNCHANGED signal_callbacks
       ELSE /\ signal_callbacks' = Push(signal_callbacks, h)
            /\ UNCHANGED <<token, woken, round, fired>>
    /\ UNCHANGED signal

\* KObjectBase::add_signal_callback: lock, push, unlock
add_signal_callback(h) ==
    /\ AddLock
    /\ signal_callbacks' = Push(signal_callbacks, h)
    /\ UNCHANGED <<signal, token, woken, round, fired>>

WaitActive == wait.pc \in {"reg", "parked", "woken"}

\* signal_change, to the end of `inner.signal.remove(clear)`
SignalChange(m, clear, set) ==
    /\ mut[m].pc = "idle"
    /\ count.changes < MaxChanges
    /\ ChangeLock
    /\ lock' = m
    /\ mut' = [mut EXCEPT ![m] = [pc |-> "insert", clear |-> clear, set |-> set,
                                  old_signal |-> signal, new_signal |-> Empty, idx |-> 0]]
    /\ signal' = RemoveBits(signal, clear)
    /\ expected' = ApplyStep(expected, clear, set)
    /\ count' = [count EXCEPT !.changes = @ + 1]
    /\ UNCHANGED <<signal_callbacks, wait, token, fut, woken, epoch, round, fired, hit>>
    /\ UNCHANGED <<KOID, koids, ext, snap, given>>

\* signal_set passing its argument as the bits to clear
SignalSetSwapped(m, s) == SignalChange(m, s, Empty)

\* signal_set(signal) = signal_change(Signal::empty(), signal)
SignalSet(m, s) == SignalChange(m, Empty, s)

\* signal_clear(signal) = signal_change(signal, Signal::empty())
SignalClear(m, s) == SignalChange(m, s, Empty)

\* signal_change, `inner.signal.insert(set)` and the early return; `clear` and
\* `set` are dead from here on
ScInsert(m) ==
    /\ mut[m].pc = "insert"
    /\ LET new == InsertBits(signal, mut[m].set) IN
       /\ signal' = new
       /\ IF Changed(mut[m].old_signal, new)
          THEN /\ mut' = [mut EXCEPT ![m].pc = "retain", ![m].clear = Empty, ![m].set = Empty,
                                       ![m].new_signal = new, ![m].idx = 1]
               /\ epoch' = epoch + 1
               /\ hit' = (hit \/ (WaitActive /\ Intersects(new, wait.mask)))
               /\ snap' = IdSeq(signal_callbacks)
               /\ UNCHANGED lock
          ELSE /\ mut' = [mut EXCEPT ![m] = IdleMut]
               /\ lock' = NoThread
               /\ snap' = <<>>
               /\ UNCHANGED <<epoch, hit>>
    /\ round' = <<>>
    /\ given' = <<>>
    /\ UNCHANGED <<signal_callbacks, wait, token, fut, woken, count, fired, expected>>
    /\ UNCHANGED <<KOID, koids, ext>>

\* signal_change, one element of `retain(|f| !f(new_signal))`
ScRetain(m) ==
    /\ mut[m].pc = "retain"
    /\ mut[m].idx <= Len(signal_callbacks)
    /\ LET i == mut[m].idx
           h == signal_callbacks[i]
           r == HandlerFires(h, CallbackArg(m))
       IN  /\ round' = Append(round, h.id)
           /\ given' = Append(given, CallbackArg(m))
           /\ IF h.kind \in ReentrantOps
              THEN \* the body is entered and calls back into the object: it is now
                   \* at that call's self.inner.lock(), see InnerLock
                   /\ mut' = [mut EXCEPT ![m].pc = "callback"]
                   /\ UNCHANGED <<signal_callbacks, token, woken, fired>>
              ELSE /\ Wake(h, r)
                   /\ fired' = IF r THEN fired \cup {h.id} ELSE fired
                   /\ IF Retained(r)
                      THEN /\ signal_callbacks' = [signal_callbacks EXCEPT
                                                       ![i].seen = epoch, ![i].last = CallbackArg(m),
                                                       ![i].calls = @ + 1]
                           /\ mut' = [mut EXCEPT ![m].idx = i + 1]
                      ELSE /\ signal_callbacks' = RemoveAt(signal_callbacks, i)
                           /\ UNCHANGED mut
    /\ UNCHANGED snap
    /\ UNCHANGED <<signal, lock, wait, fut, count, epoch, expected, hit>>
    /\ UNCHANGED <<KOID, koids, ext>>

\* signal_change, the end of retain: the guard is dropped and the call returns
ScReturn(m) ==
    /\ mut[m].pc = "retain"
    /\ mut[m].idx > Len(signal_callbacks)
    /\ mut' = [mut EXCEPT ![m] = IdleMut]
    /\ lock' = NoThread
    /\ round' = <<>>
    /\ snap' = <<>>
    /\ given' = <<>>
    /\ UNCHANGED <<signal, signal_callbacks, wait, token, fut, woken, count, epoch,
                   fired, expected, hit>>
    /\ UNCHANGED <<KOID, koids, ext>>

\* wait_signal going on to register whatever its first read shows
WaitSignalAlwaysRegister(mask) ==
    /\ wait.pc \in {"idle", "done"}
    /\ count.waits < MaxWaits
    /\ ReadLock
    /\ wait' = [pc |-> "reg", mask |-> mask, current_signal |-> signal]
    /\ count' = [count EXCEPT !.waits = @ + 1, !.regw = 0]
    /\ hit' = FALSE
    /\ UNCHANGED <<signal, signal_callbacks, lock, mut, token, fut, woken, epoch,
                   round, fired, expected>>
    /\ UNCHANGED <<KOID, koids, ext, snap, given>>

\* wait_signal, `self.signal()` and the first test
WaitSignal(mask) ==
    /\ wait.pc \in {"idle", "done"}
    /\ count.waits < MaxWaits
    /\ ReadLock
    /\ wait' = [pc |-> IF WaitSatisfied(signal, mask) THEN "done" ELSE "reg",
                mask |-> mask, current_signal |-> signal]
    /\ count' = [count EXCEPT !.waits = @ + 1, !.regw = 0]
    /\ hit' = FALSE
    /\ UNCHANGED <<signal, signal_callbacks, lock, mut, token, fut, woken, epoch,
                   round, fired, expected>>
    /\ UNCHANGED <<KOID, koids, ext, snap, given>>

\* wait_signal reading the signal again once its callback is registered
WsRegisterRecheck ==
    /\ wait.pc = "reg"
    /\ add_signal_callback(Handler(<<"w", count.waits>>, wait.mask, "thread"))
    /\ wait' = [wait EXCEPT !.pc = IF WaitSatisfied(signal, wait.mask) THEN "done" ELSE "parked",
                            !.current_signal = signal]
    /\ count' = [count EXCEPT !.regw = @ + 1]
    /\ UNCHANGED <<lock, mut, fut, epoch, expected, hit>>
    /\ UNCHANGED <<KOID, koids, ext, snap, given>>

\* wait_signal, get_waker() and add_signal_callback(..)
WsRegister ==
    /\ wait.pc = "reg"
    /\ add_signal_callback(Handler(<<"w", count.waits>>, wait.mask, "thread"))
    /\ wait' = [wait EXCEPT !.pc = "parked"]
    /\ count' = [count EXCEPT !.regw = @ + 1]
    /\ UNCHANGED <<lock, mut, fut, epoch, expected, hit>>
    /\ UNCHANGED <<KOID, koids, ext, snap, given>>

\* wait_signal, Thread::park() returns: the token is consumed
WsPark ==
    /\ wait.pc = "parked"
    /\ token
    /\ token' = FALSE
    /\ wait' = [wait EXCEPT !.pc = "woken"]
    /\ UNCHANGED <<signal, signal_callbacks, lock, mut, fut, woken, count, epoch,
                   round, fired, expected, hit>>
    /\ UNCHANGED <<KOID, koids, ext, snap, given>>

\* wait_signal, `current_signal = self.signal()` and the loop test
WsRead ==
    /\ wait.pc = "woken"
    /\ ReadLock
    /\ wait' = [wait EXCEPT !.pc = IF WaitSatisfied(signal, wait.mask) THEN "done" ELSE "parked",
                            !.current_signal = signal]
    /\ UNCHANGED <<signal, signal_callbacks, lock, mut, token, fut, woken, count,
                   epoch, round, fired, expected, hit>>
    /\ UNCHANGED <<KOID, koids, ext, snap, given>>

\* wait_signal_async: the future is built, nothing is registered yet
WaitSignalAsync(mask) ==
    /\ fut.pc = "none"
    /\ count.futures < MaxFutures
    /\ fut' = [pc |-> "created", mask |-> mask, first |-> TRUE, result |-> Empty]
    /\ count' = [count EXCEPT !.futures = @ + 1, !.regf = 0]
    /\ UNCHANGED <<signal, signal_callbacks, lock, mut, wait, token, woken,
                   epoch, round, fired, expected, hit>>
    /\ UNCHANGED <<KOID, koids, ext, snap, given>>

\* SignalFuture::poll, `self.object.signal()` and the test; the scheduler's
\* wake flag is taken when it polls
Poll ==
    /\ fut.pc \in {"created", "pending"}
    /\ count.polls < MaxPolls
    /\ ReadLock
    /\ fut' = IF PollReady(signal, fut.mask)
              THEN [fut EXCEPT !.pc = "ready", !.result = signal]
              ELSE [fut EXCEPT !.pc = IF fut.first THEN "reg" ELSE "pending"]
    /\ woken' = FALSE
    /\ count' = [count EXCEPT !.polls = @ + 1]
    /\ UNCHANGED <<signal, signal_callbacks, lock, mut, wait, token, epoch, round,
                   fired, expected, hit>>
    /\ UNCHANGED <<KOID, koids, ext, snap, given>>

\* SignalFuture::poll registering without `self.first = false`
PollRegisterKeepFirst ==
    /\ fut.pc = "reg"
    /\ add_signal_callback(Handler(<<"t", count.futures>>, fut.mask, "task"))
    /\ fut' = [fut EXCEPT !.pc = "pending"]
    /\ count' = [count EXCEPT !.regf = @ + 1]
    /\ UNCHANGED <<lock, mut, wait, epoch, expected, hit>>
    /\ UNCHANGED <<KOID, koids, ext, snap, given>>

\* SignalFuture::poll, `if self.first { add_signal_callback(..); self.first = false }`
PollRegister ==
    /\ fut.pc = "reg"
    /\ add_signal_callback(Handler(<<"t", count.futures>>, fut.mask, "task"))
    /\ fut' = [fut EXCEPT !.pc = "pending", !.first = FALSE]
    /\ count' = [count EXCEPT !.regf = @ + 1]
    /\ UNCHANGED <<lock, mut, wait, epoch, expected, hit>>
    /\ UNCHANGED <<KOID, koids, ext, snap, given>>

\* discarding the future also takes its callback out of the list
DropFutureDeregister ==
    /\ fut.pc \in {"created", "pending", "ready"}
    /\ fut' = NoFuture
    /\ LET Keep(h) == h.id # <<"t", count.futures>>
       IN  signal_callbacks' = SelectSeq(signal_callbacks, Keep)
    /\ UNCHANGED <<signal, lock, mut, wait, token, woken, count,
                   epoch, round, fired, expected, hit>>
    /\ UNCHANGED <<KOID, koids, ext, snap, given>>

\* the future is discarded between polls (or after it completed): SignalFuture has
\* no Drop impl, only its Arc to the object goes; the callback list is not touched
DropFuture ==
    /\ fut.pc \in {"created", "pending", "ready"}
    /\ fut' = NoFuture
    /\ UNCHANGED <<signal, signal_callbacks, lock, mut, wait, token, woken, count,
                   epoch, round, fired, expected, hit>>
    /\ UNCHANGED <<KOID, koids, ext, snap, given>>

Next ==
    \/ \E m \in Mutators, clear \in Signals, set \in Signals : SignalChange(m, clear, set)
    \/ \E m \in Mutators, s \in Signals : SignalSet(m, s)
    \/ \E m \in Mutators, s \in Signals : SignalClear(m, s)
    \/ \E m \in Mutators : ScInsert(m)
    \/ \E m \in Mutators : ScRetain(m)
    \/ \E m \in Mutators : ScReturn(m)
    \/ \E mask \in Masks : WaitSignal(mask)
    \/ WsRegister
    \/ WsPark
    \/ WsRead
    \/ \E mask \in Masks : WaitSignalAsync(mask)
    \/ Poll
    \/ PollRegister

Spec == Init /\ [][Next]_vars

\* Scheduling: a thread that can take its next step inside a call eventually takes
\* it.  Starting a call is up to the caller and is not forced.
Fairness ==
    /\ \A m \in Mutators : WF_vars(ScInsert(m)) /\ WF_vars(ScRetain(m)) /\ WF_vars(ScReturn(m))
    /\ WF_vars(WsRegister)
    /\ WF_vars(WsPark)
    /\ WF_vars(WsRead)
    /\ WF_vars(PollRegister)

FairSpec == Spec /\ Fairness

\* KObjectBase::new() / with_signal(..) by thread t: new_koid() gives the id
NewObject(t) ==
    /\ Len(koids) < MaxObjects
    /\ KOID' = FetchAdd(KOID).new
    /\ koids' = Append(koids, [by |-> t, id |-> FetchAdd(KOID).ret])
    /\ UNCHANGED <<signal, signal_callbacks, lock, mut, wait, token, fut, woken,
                   count, epoch, round, fired, expected, hit, ext, snap, given>>

\* Threads creating further kernel objects: the only state they share is KOID
KoidNext == \E t \in Threads : NewObject(t)

KoidSpec == Init /\ [][KoidNext]_vars

\* Async waits that are polled and discarded, with the threads that change the
\* signal; no thread is in wait_signal here.
DiscardNext ==
    \/ \E m \in Mutators, clear \in Signals, set \in Signals : SignalChange(m, clear, set)
    \/ \E m \in Mutators : ScInsert(m)
    \/ \E m \in Mutators : ScRetain(m)
    \/ \E m \in Mutators : ScReturn(m)
    \/ \E mask \in Masks : WaitSignalAsync(mask)
    \/ Poll
    \/ PollRegister
    \/ DropFuture

DiscardSpec == Init /\ [][DiscardNext]_vars

\* a thread outside the transitions starts signal() or add_signal_callback(f), f a
\* callback whose body calls `kind` on the same object; it is now at inner.lock()
ExtCall(op, kind) ==
    /\ ext.pc = "idle"
    /\ \/ op = "signal" /\ kind = "none"
       \/ /\ op = "add_signal_callback"
          /\ kind \in ReentrantOps
          /\ <<"u", kind>> \notin {signal_callbacks[i].id : i \in DOMAIN signal_callbacks}
    /\ ext' = [pc |-> "lock", op |-> op, kind |-> kind]
    /\ UNCHANGED <<signal, signal_callbacks, lock, mut, wait, token, fut, woken, count,
                   epoch, round, fired, expected, hit, KOID, koids, snap, given>>

\* self.inner.lock() returns for thread t: the outside thread in its call, or a
\* thread whose callback body has called back into the object
InnerLock(t) ==
    /\ SpinLock(t)
    /\ \/ /\ t = "u"
          /\ ext.pc = "lock"
          /\ ext' = [ext EXCEPT !.pc = "locked"]
          /\ UNCHANGED mut
       \/ /\ t \in Mutators
          /\ mut[t].pc = "callback"
          /\ mut' = [mut EXCEPT ![t].pc = "reentered"]
          /\ UNCHANGED ext
    /\ lock' = t
    /\ UNCHANGED <<signal, signal_callbacks, wait, token, fut, woken, count,
                   epoch, round, fired, expected, hit, KOID, koids, snap, given>>

\* the outside thread's call does its work, drops the guard and returns
ExtReturn ==
    /\ ext.pc = "locked"
    /\ signal_callbacks' = IF ext.op = "add_signal_callback"
                           THEN Push(signal_callbacks, Handler(<<"u", ext.kind>>, Empty, ext.kind))
                           ELSE signal_callbacks
    /\ lock' = NoThread
    /\ ext' = IdleExt
    /\ UNCHANGED <<signal, mut, wait, token, fut, woken, count,
                   epoch, round, fired, expected, hit, KOID, koids, snap, given>>

\* Callbacks that call back into the object, with the threads that change the
\* signal and a thread that reads it or registers such callbacks.
ReentrantNext ==
    \/ \E m \in Mutators, clear \in Signals, set \in Signals : SignalChange(m, clear, set)
    \/ \E m \in Mutators : ScInsert(m)
    \/ \E m \in Mutators : ScRetain(m)
    \/ \E m \in Mutators : ScReturn(m)
    \/ \E op \in {"signal", "add_signal_callback"}, kind \in ReentrantOps \cup {"none"} : ExtCall(op, kind)
    \/ \E t \in Mutators \cup {"u"} : InnerLock(t)
    \/ ExtReturn

ReentrantSpec == Init /\ [][ReentrantNext]_vars

----------------------------------------------------------------------------
\* Steps and sets the properties below speak about

InFlight == {m \in Mutators : mut[m].pc # "idle"}
IdsOf(list) == {list[i].id : i \in DOMAIN list}

\* a callback with this id is invoked in the step
InvokedStep(id) == Len(round') = Len(round) + 1 /\ round'[Len(round')] = id

\* wait_signal returns in the step
WaitReturnStep == wait'.pc = "done" /\ (wait.pc # "done" \/ count'.waits # count.waits)

\* wait_signal reads the signal in the step
WaitReadStep == count'.waits # count.waits \/ (wait.pc = "woken" /\ wait'.pc # "woken")

\* the future is polled in the step
PollStep == count'.polls # count.polls

\* a wait or a poll registers its callback in the step
RegisterStep == (wait.pc = "reg" /\ wait'.pc # "reg") \/ (fut.pc = "reg" /\ fut'.pc # "reg")

\* the values a reader may see: the signal, or, while a change request is under
\* way, the signal before the request and the signal after it
Visible ==
    IF \E m \in Mutators : mut[m].pc = "insert"
    THEN UNION {{mut[m].old_signal, ApplyStep(mut[m].old_signal, mut[m].clear, mut[m].set)} :
                m \in {x \in Mutators : mut[x].pc = "insert"}}
    ELSE {signal}

----------------------------------------------------------------------------
\* C1: a wait_signal(mask) call eventually returns once the signal intersects
\* mask and keeps intersecting it: the call cannot stay unreturned for ever
\* while the signal intersects its mask from some point on.
C1_WaitEventuallyReturns == []<>~(WaitActive /\ Intersects(signal, wait.mask))

\* C2: wait_signal(mask) returns only a value that intersects mask, the value is
\* the full signal of the object at the read it returns from, and a call that
\* did not return at its first test returns only after a transition whose new
\* value intersects mask has happened since the call.
C2_ReturnsOnlyAfterIntersect ==
    /\ [](wait.pc = "done" => Intersects(wait.current_signal, wait.mask))
    /\ [][WaitReturnStep =>
            /\ wait'.current_signal = signal
            /\ (wait.pc = "woken" => hit)]_vars

\* a wait that parked has returned, with the full signal and not only the mask's bits
C2_Witness ==
    /\ wait.pc = "done"
    /\ hit
    /\ wait.current_signal # wait.mask
    /\ \E id \in fired : id[1] = "w"

\* C3: whenever the last poll of the future returned not-ready, no change request
\* is under way and the signal intersects the mask, the task's reschedule handle
\* has been invoked since that poll.
C3_PendingFutureIsWoken ==
    (fut.pc = "pending" /\ lock = NoThread /\ Intersects(signal, fut.mask)) => woken

\* C4: a poll completes with the full current signal exactly when that signal
\* intersects the mask, and otherwise returns not-ready; a completed result
\* intersects the mask.
C4_PollChecksSignalFirst ==
    /\ [](fut.pc = "ready" => Intersects(fut.result, fut.mask))
    /\ [][PollStep =>
            IF Intersects(signal, fut.mask)
            THEN fut'.pc = "ready" /\ fut'.result = signal
            ELSE fut'.pc \in {"reg", "pending"}]_vars

\* a first poll completed, with no callback ever registered, and with the full signal
C4_Witness ==
    /\ fut.pc = "ready"
    /\ fut.first
    /\ fut.result # fut.mask
    /\ <<"t", count.futures>> \notin IdsOf(signal_callbacks)

\* C5: a change request whose clear-then-set result equals the prior signal
\* returns without invoking a callback and leaves the callback list unchanged;
\* callbacks are invoked only by a request whose new signal differs from the old.
C5_NoCallbackWithoutTransition ==
    /\ [](\A m \in Mutators : mut[m].pc = "retain" => mut[m].new_signal # mut[m].old_signal)
    /\ [][\A m \in Mutators :
            (mut[m].pc = "insert" /\ mut'[m] # mut[m] /\ signal' = mut[m].old_signal) =>
                /\ mut'[m].pc = "idle"
                /\ signal_callbacks' = signal_callbacks
                /\ round' = <<>>
                /\ <<token, woken, fired>>' = <<token, woken, fired>>]_vars
    /\ [][\A id \in IdsOf(signal_callbacks) : InvokedStep(id) =>
            \E m \in Mutators : mut[m].pc = "retain" /\ mut[m].new_signal # mut[m].old_signal]_vars

\* a request that clears and sets back a bit is about to return, while a callback
\* whose mask the unchanged signal satisfies is registered
C5_Witness ==
    \E m \in Mutators :
        /\ mut[m].pc = "insert"
        /\ signal # mut[m].old_signal
        /\ InsertBits(signal, mut[m].set) = mut[m].old_signal
        /\ \E i \in DOMAIN signal_callbacks : HandlerFires(signal_callbacks[i], mut[m].old_signal)

\* C6: a callback is invoked at most once per transition; one that returned true
\* is out of the list from that same step on and is never invoked again, so its
\* wake handle is invoked at most once; one that returned false stays registered.
C6_FiredCallbackNeverInvokedAgain ==
    /\ [](IdsOf(signal_callbacks) \cap fired = {})
    /\ [](\A i, j \in DOMAIN round : i # j => round[i] # round[j])
    /\ [][\A id \in fired : ~InvokedStep(id)]_vars
    /\ [][\A id \in IdsOf(signal_callbacks) : InvokedStep(id) =>
            /\ (id \in fired') = (id \notin IdsOf(signal_callbacks'))
            /\ (id \in fired') = (\E m \in Mutators : \E i \in DOMAIN signal_callbacks :
                    /\ signal_callbacks[i].id = id
                    /\ mut[m].pc = "retain"
                    /\ Intersects(mut[m].new_signal, signal_callbacks[i].mask))]_vars

\* during the second transition, after one callback has fired and left the list,
\* another callback is invoked, returns false and stays
C6_Witness ==
    /\ fired # {}
    /\ epoch = 2
    /\ round # <<>>
    /\ round[1] \in IdsOf(signal_callbacks)
    /\ round[1] \notin fired

\* C7: one change request is one transition: readers of signal() see the signal
\* before the request or (old minus clear) union set, never the value in between,
\* and that combined value is the one the request hands to the callbacks.
C7_NoIntermediateObserved ==
    /\ [][WaitReadStep => wait'.current_signal \in Visible]_vars
    /\ [][(PollStep /\ fut'.pc = "ready") => fut'.result \in Visible]_vars
    /\ [][(PollStep /\ fut'.pc # "ready") =>
            \E v \in Visible : ~Intersects(v, fut.mask)]_vars
    /\ [][\A m \in Mutators : (mut[m].pc = "insert" /\ mut'[m].pc = "retain") =>
            mut'[m].new_signal = ApplyStep(mut[m].old_signal, mut[m].clear, mut[m].set)]_vars

\* a request has removed its clear bits and not yet added its set bits, the value
\* in between is neither the old nor the new signal, and a wait is under way
C7_Witness ==
    /\ WaitActive
    /\ \E m \in Mutators :
        /\ mut[m].pc = "insert"
        /\ signal # mut[m].old_signal
        /\ signal # ApplyStep(mut[m].old_signal, mut[m].clear, mut[m].set)

\* C8: whenever no change request is under way, the signal is the fold, in call
\* order, of (current minus clear) union set over the requests made so far.
C8_SignalIsFoldOfSteps == (lock = NoThread /\ InFlight = {}) => signal = expected

\* two requests have completed, both changed the value, and the result is neither
\* the empty nor the full signal
C8_Witness ==
    /\ lock = NoThread
    /\ InFlight = {}
    /\ count.changes >= 2
    /\ epoch >= 2
    /\ signal \notin {Empty, Bits}

\* C9: change requests are serialized: at most one is inside signal_change at a
\* time, the callbacks of a transition all run while the signal still is that
\* transition's value, every registered callback has been handed every
\* value-changing transition since its registration, in order, and the signal is
\* the result of the requests in the order they took the lock.
C9_TransitionsSerialized ==
    /\ Cardinality(InFlight) <= 1
    /\ InFlight = {} <=> lock = NoThread
    /\ \A m \in InFlight : lock = m
    /\ \A m \in Mutators : mut[m].pc = "retain" => mut[m].new_signal = signal
    /\ \A i \in DOMAIN signal_callbacks :
        signal_callbacks[i].seen =
            IF \E m \in Mutators : mut[m].pc = "retain" /\ i >= mut[m].idx
            THEN epoch - 1
            ELSE epoch
    /\ (InFlight = {} => signal = expected)

\* the second transition is handing its value to the callbacks, one done, one to go
C9_Witness ==
    /\ epoch = 2
    /\ count.changes = 2
    /\ \E m \in Mutators :
        /\ mut[m].pc = "retain"
        /\ mut[m].idx = 2
        /\ Len(signal_callbacks) = 2

\* C10: registering a callback appends it to the end of the list and does nothing
\* else to the object: the signal is unchanged and no callback is invoked or
\* woken, also when the new callback's mask is already satisfied; a callback is
\* invoked only by a transition later than its registration.
C10_RegistrationOnlyAppends ==
    /\ [][RegisterStep =>
            /\ Len(signal_callbacks') = Len(signal_callbacks) + 1
            /\ SubSeq(signal_callbacks', 1, Len(signal_callbacks)) = signal_callbacks
            /\ signal_callbacks'[Len(signal_callbacks')].seen = epoch
            /\ <<signal, round, fired, token, woken, epoch>>' =
               <<signal, round, fired, token, woken, epoch>>]_vars
    /\ [][\A i \in DOMAIN signal_callbacks : InvokedStep(signal_callbacks[i].id) =>
            signal_callbacks[i].seen < epoch]_vars

\* a wait registered its callback behind another one while the signal already
\* satisfied its mask, and is parked with no wake pending
C10_Witness ==
    /\ wait.pc = "parked"
    /\ ~token
    /\ lock = NoThread
    /\ Intersects(signal, wait.mask)
    /\ Len(signal_callbacks) = 2
    /\ signal_callbacks[2].kind = "thread"
    /\ fired = {}

\* number of callbacks in the list that carry this id
Registered(id) == Cardinality({i \in DOMAIN signal_callbacks : signal_callbacks[i].id = id})

\* C11 as stated: every wait_signal call and every first poll registers exactly
\* one callback.
C11_ExactlyOnePerCall ==
    /\ wait.pc \in {"parked", "woken", "done"} => count.regw = 1
    /\ fut.pc \in {"pending", "ready"} => count.regf = 1

\* C11 amended: a wait_signal call registers exactly one callback unless it
\* returns at its first test, and then none; an async wait registers one at its
\* first poll unless that poll completes, and then none; later polls register
\* nothing, so one async wait has at most one callback in the list.
C11_AtMostOnePerCall ==
    /\ [](count.regw <= 1 /\ count.regf <= 1)
    /\ [](wait.pc = "reg" => count.regw = 0)
    /\ [](wait.pc \in {"parked", "woken"} => count.regw = 1)
    /\ [](fut.pc \in {"created", "reg"} => count.regf = 0)
    /\ [](fut.pc = "pending" => count.regf = 1)
    /\ [](Registered(<<"t", count.futures>>) <= 1 /\ Registered(<<"w", count.waits>>) <= 1)
    /\ [][WaitReturnStep => count'.regw = IF wait.pc = "woken" THEN 1 ELSE 0]_vars
    /\ [][(PollStep /\ fut'.pc = "ready") => count'.regf = count.regf]_vars
    /\ [][count'.regf > count.regf => (fut.pc = "reg" /\ fut.first /\ count.regf = 0)]_vars

\* a second poll has returned not-ready and the future still has one callback,
\* beside the one callback of a parked wait
C11_Witness ==
    /\ count.polls >= 2
    /\ fut.pc = "pending"
    /\ count.regf = 1
    /\ wait.pc = "parked"
    /\ count.regw = 1
    /\ Len(signal_callbacks) = 2

\* C12: ids come from one counter that starts at 1024 and grows by one per
\* allocation: the ids handed out are strictly increasing in allocation order,
\* hence pairwise distinct, whichever threads allocate them.
C12_KoidsStrictlyIncreasing ==
    /\ koids[1].id = KoidStart
    /\ KOID = KoidStart + Len(koids)
    /\ \A i, j \in DOMAIN koids : i < j => koids[i].id < koids[j].id
    /\ \A i, j \in DOMAIN koids : i # j => koids[i].id # koids[j].id

\* three threads have created objects, in an order that is not their own
C12_Witness ==
    /\ Len(koids) = 4
    /\ {koids[i].by : i \in DOMAIN koids} = Threads
    /\ koids[2].by = "c"
    /\ koids[3].by = "a"

\* the threads inside a callback body that has called back into the object
Stuck == {m \in Mutators : mut[m].pc = "callback"}

\* C13: callbacks are invoked with the lock held by the invoking thread; once a
\* callback body has called signal, signal_change or add_signal_callback on the
\* same object, that thread stays in the call for ever with the lock held, the
\* transition never completes, and no other thread gets past the lock.
C13_ReentrantCallbackDeadlocks ==
    /\ [](\A m \in Stuck : lock = m)
    /\ [][(Len(round') = Len(round) + 1) => (lock \in Mutators /\ mut[lock].pc = "retain" /\ lock' = lock)]_vars
    /\ [][Stuck # {} => /\ UNCHANGED <<signal, signal_callbacks, lock, mut, count, epoch, round>>
                        /\ ext'.pc # "locked"
                        /\ (ext.pc = "lock" => ext' = ext)]_vars

\* a transition is stuck in a callback while the outside thread waits for the
\* lock and the other mutating thread has yet to call
C13_Witness ==
    /\ Stuck # {}
    /\ ext.pc = "lock"
    /\ count.changes < MaxChanges
    /\ \E m \in Mutators : mut[m].pc = "idle"
    /\ Len(signal_callbacks) >= 2

\* C14: a step is the start of signal_set(s) exactly when it is the start of
\* signal_change(empty, s), and of signal_clear(s) exactly when it is the start
\* of signal_change(s, empty); signal_set(s) leaves in the call's locals the
\* request that ends with signal \cup s, signal_clear(s) the one that ends with
\* signal \ s.  The rest of the call (insert, compare, retain) reads only these
\* locals, the signal and the list, so results, callbacks invoked, values
\* delivered and the list left are the same.
C14_SetClearAreChange ==
    /\ [][\A m \in Mutators, s \in Signals :
            /\ SignalSet(m, s) <=> SignalChange(m, Empty, s)
            /\ SignalClear(m, s) <=> SignalChange(m, s, Empty)]_vars
    /\ [][\A m \in Mutators, s \in Signals :
            /\ SignalSet(m, s) =>
                 /\ signal' = signal
                 /\ expected' = expected \cup s
                 /\ mut'[m].old_signal = signal /\ mut'[m].clear = Empty /\ mut'[m].set = s
                 /\ signal_callbacks' = signal_callbacks
            /\ SignalClear(m, s) =>
                 /\ signal' = signal \ s
                 /\ expected' = expected \ s
                 /\ mut'[m].old_signal = signal /\ mut'[m].clear = s /\ mut'[m].set = Empty
                 /\ signal_callbacks' = signal_callbacks]_vars

\* signal_set({R}) has started on an object with a callback registered, after an
\* earlier transition
C14_Witness ==
    /\ \E m \in Mutators : mut[m].pc = "insert" /\ mut[m].clear = Empty /\ mut[m].set = {"R"}
    /\ Len(signal_callbacks) >= 1
    /\ epoch = 1
    /\ "R" \notin signal

\* the callback of the wait_signal call in progress
WaitId == <<"w", count.waits>>

\* C15: registration neither evaluates the callback nor reads the signal again:
\* the waiter goes from registering to parked with the snapshot it took at the
\* call, whatever the signal is by then.  A parked waiter with no wake pending
\* stays parked, whatever the signal is, until its callback is invoked by a
\* transition whose new value intersects mask.
C15_RegistrationRace ==
    /\ [][(wait.pc = "reg" /\ wait'.pc # "reg") =>
            /\ wait'.pc = "parked"
            /\ wait'.current_signal = wait.current_signal
            /\ token' = token
            /\ WaitId \notin fired']_vars
    /\ [][(wait.pc = "parked" /\ ~token) =>
            /\ wait'.pc = "parked"
            /\ token' => /\ InvokedStep(WaitId)
                         /\ \E m \in Mutators : mut[m].pc = "retain" /\ lock = m
                                /\ Intersects(mut[m].new_signal, wait.mask)]_vars

\* a transition satisfying mask happened after the call's check and was complete
\* before the registration: the waiter is parked with no wake pending, its
\* callback never invoked, and the signal intersects mask
C15_Witness ==
    /\ wait.pc = "parked"
    /\ ~token
    /\ hit
    /\ Intersects(signal, wait.mask)
    /\ ~Intersects(wait.current_signal, wait.mask)
    /\ InFlight = {}
    /\ \E i \in DOMAIN signal_callbacks :
          signal_callbacks[i].id = WaitId /\ signal_callbacks[i].seen = epoch
    /\ WaitId \notin fired

\* s is a prefix of t
IsPrefix(s, t) == Len(s) <= Len(t) /\ \A i \in DOMAIN s : s[i] = t[i]

\* C16: while a value-changing transition runs its callbacks, the callbacks
\* invoked so far are the first ones of the list as it stood when the transition
\* began, in list order, each once, each given the new signal value; the ones
\* not yet invoked are the rest of that list, still in place.  When the
\* transition returns every callback of that list has been invoked.  List order
\* is registration order, since registering appends.
C16_EachCallbackOnceInOrder ==
    /\ [](\A m \in Mutators : mut[m].pc = "retain" =>
            /\ IsPrefix(round, snap)
            /\ Cardinality({snap[i] : i \in DOMAIN snap}) = Len(snap)
            /\ Len(given) = Len(round)
            /\ \A i \in DOMAIN given : given[i] = mut[m].new_signal /\ given[i] = signal
                                       /\ given[i] # mut[m].old_signal
            /\ IdSeq(SubSeq(signal_callbacks, mut[m].idx, Len(signal_callbacks)))
                 = SubSeq(snap, Len(round) + 1, Len(snap)))
    /\ [][\A m \in Mutators : (mut[m].pc = "retain" /\ mut'[m].pc = "idle") =>
            (round = snap /\ Len(given) = Len(snap))]_vars
    /\ [][\A m \in Mutators : (mut[m].pc = "insert" /\ mut'[m].pc = "retain") =>
            (snap' = IdSeq(signal_callbacks) /\ signal_callbacks' = signal_callbacks)]_vars
    /\ [][RegisterStep => (Len(signal_callbacks') = Len(signal_callbacks) + 1
                           /\ SubSeq(signal_callbacks', 1, Len(signal_callbacks)) = signal_callbacks)]_vars

\* a transition has invoked both registered callbacks, the thread's first and the
\* task's second; one fired and left the list, the other stayed
C16_Witness ==
    /\ \E m \in Mutators : mut[m].pc = "retain" /\ mut[m].idx > Len(signal_callbacks)
    /\ snap = <<<<"w", 1>>, <<"t", 1>>>>
    /\ round = snap
    /\ given = <<signal, signal>>
    /\ Len(signal_callbacks) = 1

\* the live future is discarded in the step
DropStep == fut.pc # "none" /\ fut'.pc = "none"

\* C17: discarding a future leaves the callback list as it is.  A callback leaves
\* the list only in a step that invokes it with a value intersecting its mask,
\* and it does leave then; invoked with any other value it stays.  Each
\* registration makes the list one longer, so the list only shrinks by matching
\* transitions.
C17_DiscardKeepsCallback ==
    /\ [][DropStep => signal_callbacks' = signal_callbacks]_vars
    /\ [][\A i \in DOMAIN signal_callbacks :
            LET h == signal_callbacks[i] IN
            /\ h.id \notin IdsOf(signal_callbacks') =>
                  (InvokedStep(h.id) /\ Intersects(signal, h.mask) /\ lock \in Mutators
                   /\ mut[lock].pc = "retain" /\ signal = mut[lock].new_signal)
            /\ (InvokedStep(h.id) /\ Intersects(signal, h.mask)) => h.id \notin IdsOf(signal_callbacks')
            /\ (InvokedStep(h.id) /\ ~Intersects(signal, h.mask)) => h.id \in IdsOf(signal_callbacks')]_vars
    /\ [][(fut.pc = "reg" /\ fut'.pc # "reg") => Len(signal_callbacks') = Len(signal_callbacks) + 1]_vars
    /\ [][Len(signal_callbacks') >= Len(signal_callbacks) \/ Cardinality(fired') > Cardinality(fired)]_vars

\* two futures were polled and discarded; a later transition that matches neither
\* mask has invoked both callbacks and both are still in the list
C17_Witness ==
    /\ fut.pc = "none"
    /\ count.futures = 2
    /\ snap = <<<<"t", 1>>, <<"t", 2>>>>
    /\ round = snap
    /\ IdSeq(signal_callbacks) = snap
    /\ fired = {}

\* wait_signal is called in the step
WaitCallStep == count'.waits # count.waits

\* C18: a wait_signal call that finds the signal intersecting mask at its first
\* read returns that value in the same step: nothing is registered, no token is
\* set or taken, signal, list and lock are as before, and the call takes no
\* further step.
C18_ImmediateReturn ==
    /\ [][(WaitCallStep /\ Intersects(signal, wait'.mask)) =>
            /\ wait'.pc = "done"
            /\ wait'.current_signal = signal
            /\ count'.regw = 0
            /\ UNCHANGED <<signal, signal_callbacks, lock, token, woken, round, fired>>]_vars
    /\ [][(wait.pc = "done" /\ count.regw = 0 /\ ~WaitCallStep) =>
            (wait' = wait /\ count'.regw = 0)]_vars
    /\ []((wait.pc = "done" /\ count.regw = 0) =>
            /\ Intersects(wait.current_signal, wait.mask)
            /\ WaitId \notin IdsOf(signal_callbacks) \cup fired)

\* the call has returned at once on an object that has a task's callback
\* registered and no token set
C18_Witness ==
    /\ wait.pc = "done"
    /\ count.regw = 0
    /\ wait.current_signal = signal
    /\ ~token
    /\ Len(signal_callbacks) = 1
    /\ InFlight = {}

\* C19: whenever the thread is parked inside wait_signal with no wake pending,
\* the callback of that call is still in the object's list.
C19_ParkedWaiterHasCallback ==
    (wait.pc = "parked" /\ ~token) => WaitId \in IdsOf(signal_callbacks)

\* C20: the value a callback is invoked with differs from the signal the object
\* held before the transition and from the value this callback saw last (the
\* signal at its registration, or the value of its previous invocation); between
\* transitions every registered callback has seen the current signal, so it has
\* missed no transition.
C20_DeliveredValueIsNew ==
    /\ [][\A m \in Mutators : (mut[m].pc = "retain" /\ Len(round') = Len(round) + 1) =>
            LET h == signal_callbacks[mut[m].idx]
                v == given'[Len(given')]
            IN  v # mut[m].old_signal /\ v # h.last /\ v = signal]_vars
    /\ [](InFlight = {} => \A i \in DOMAIN signal_callbacks : signal_callbacks[i].last = signal)
    /\ [](\A m \in Mutators : mut[m].pc = "retain" =>
            \A i \in DOMAIN signal_callbacks :
                signal_callbacks[i].last = IF i < mut[m].idx THEN signal ELSE mut[m].old_signal)

\* a callback that was invoked once and stayed registered has just been invoked
\* a second time, by the next value-changing transition, and stays again
C20_Witness ==
    /\ epoch = 2
    /\ \E m \in Mutators : mut[m].pc = "retain" /\ mut[m].idx = 2
    /\ signal_callbacks[1].calls = 2
    /\ signal_callbacks[1].last = signal

====
